---- MODULE Spec2Model ----
(***************************************************************************)
(* Model of imgd's status collector (status.go): the StatusCollector with  *)
(* its info struct, the buffered channel inputData, the aggregator         *)
(* goroutine started by MakeStatsCollector (a select over ticker.C and     *)
(* inputData), the five ingestion methods, Collect and ToJSON.             *)
(***************************************************************************)
EXTENDS Integers, Sequences, FiniteSets, Bags, TLC

\* ------------------------------------------------------------------ bounds
\* Ingestion calls started in one run.
MaxCalls == 2
\* Ingestion calls started in the runs that call ToJSON, that cover two
\* ticks, or whose ticker never stops.
FewCalls == 1
\* HitCache calls already queued where a run starts with a backlog.
Backlog == 4
\* ToJSON calls started in one run.
MaxExports == 1
\* Seconds of wall-clock time modelled after construction: one tick, and
\* two ticks in the runs of TicksSpec.
MaxElapsed == 5
LongElapsed == 10
\* Seconds the clock counts in the runs that start with a full channel (the
\* ticker goes on after them).
ShortElapsed == 1
\* Width of Go's uint in the model.  The build's width is 32 or 64; TLC's
\* integers are 32-bit, so the width is scaled down.  No counter gets near
\* the wrap-around by counting from zero: WrapInit starts next to it.
UintBits == 8

\* --------------------------------------------------------- program constants
StatusTypeCacheHit == 0
StatusTypeCacheMiss == 1
StatusTypeRequested == 2
StatusTypeAPIRequested == 3
StatusTypeErrored == 4
\* make(chan statusCollectorMessage, 5)
ChanCap == 5
\* time.NewTicker(time.Second * 5)
TickPeriod == 5
\* ticker.C is a channel of capacity 1 (package time)
TickerCap == 1

\* ------------------------------------------------------------------ inputs
\* Goroutines calling the ingestion methods, and goroutines calling ToJSON.
Producers == {"p1", "p2"}
Exporters == {"e1"}
\* The strings passed to Errored / Requested / APIRequested.
Strings == {"", "skin"}
\* time.Now().Unix() at construction.
BootTimes == {3}
\* memstats.Alloc, cache.size(), cache.memory() as the collaborators report them.
AllocValues == {4}
CacheSizes == {1, 2}
CacheMems == {8}

UintMod == 2 ^ UintBits
UintMax == UintMod - 1

VARIABLES
  info,        \* s.info
  StartedAt,   \* s.StartedAt
  inputData,   \* s.inputData: the buffered channel's queue
  tickerC,     \* ticks waiting in ticker.C
  sinceTick,   \* seconds since the ticker last fired (or was created)
  dropped,     \* history: the ticker has dropped a tick (ticker.C was full)
               \* since the aggregator last received one, in the seconds
               \* the clock counts
  skipped,     \* history: the tick the aggregator last received had waited
               \* while a later tick was dropped
  registry,    \* the prometheus counter vectors
  now,         \* the wall clock, in seconds
  aggPc,       \* where the aggregator goroutine is
  aggMsg,      \* msg of the aggregator's handleMessage
  prodPc,      \* per producer: "idle" or "send" (inside the channel send)
  prodMsg,     \* per producer: the message being sent
  started,     \* history: the bag of messages of the ingestion calls started
  returned,    \* history: the bag of messages of the ingestion calls returned
  handled,     \* history: the bag of messages handleMessage has finished
  callAt,      \* history, per producer: whether its last call found the
               \* channel full, and if so (until it returns) how many
               \* messages the aggregator had received by then, and whether
               \* the aggregator was inside an external call
  cacheRet,    \* history: what cache.size() / cache.memory() last returned
  entered,     \* history: the messages in the order they entered inputData
  order,       \* history: the messages in the order handleMessage finished them
  sampled,     \* history: what the Collect of the tick last received has
               \* obtained so far for each gauge (-1: not yet)
  rdPc,        \* per exporter: 0, or the place in ReadOrder ToJSON reads next
  rdBuf,       \* per exporter: what ToJSON has read of s.info so far
  exported,    \* per exporter: the last result of ToJSON (NoResult before)
  exports,     \* history: ToJSON calls started
  calledAt,    \* history, per exporter: the clock as its last ToJSON began
  boundaries,  \* history: s.info at every boundary of the aggregator loop
               \* of the run (kept where the run calls ToJSON)
  crashed,     \* the runtime ended the process with a fatal error
  load,        \* the environment's budget: calls, exports, seconds
  stopRequested \* the owner of the collector has asked the aggregator to stop

\* The collector's own state, the aggregator goroutine, the clock, the
\* producers, the exporters, and the history of the aggregator.
objVars == <<info, StartedAt, inputData, registry>>
aggVars == <<aggPc, aggMsg>>
clockVars == <<now, tickerC, sinceTick, dropped, skipped>>
prodVars == <<prodPc, prodMsg, started, returned, callAt>>
rdVars == <<rdPc, rdBuf, exported, exports, calledAt>>
histVars == <<cacheRet, sampled, boundaries, handled, entered, order>>

vars ==
  <<objVars, aggVars, clockVars, prodVars, rdVars, histVars, crashed, load,
    stopRequested>>

\* -------------------------------------------------------------- data types
EmptyMap == [x \in {} |-> 0]

Message(t, s) == [MessageType |-> t, StatusType |-> s]

\* Every message the five ingestion methods can build.
Messages ==
  {Message(StatusTypeCacheHit, ""), Message(StatusTypeCacheMiss, "")}
    \cup {Message(t, s) : t \in {StatusTypeRequested, StatusTypeAPIRequested,
                                 StatusTypeErrored}, s \in Strings}

NoMsg == [MessageType |-> -1, StatusType |-> ""]

\* A faulty x++ that counts down.
UintDec(x) == (x + UintMod - 1) % UintMod

\* A faulty x++ that counts an event twice.
UintIncTwice(x) == (x + 2) % UintMod

\* x++ on a uint
UintInc(x) == (x + 1) % UintMod

\* A faulty bucket increment that ignores the empty key.
MapIncNonEmpty(m, k) ==
  IF k = "" THEN m
  ELSE IF k \in DOMAIN m
    THEN [m EXCEPT ![k] = UintInc(m[k])]
    ELSE [x \in DOMAIN m \cup {k} |-> IF x = k THEN 1 ELSE m[x]]

\* A faulty bucket increment that always stores 1.
MapIncOnce(m, k) == [x \in DOMAIN m \cup {k} |-> IF x = k THEN 1 ELSE m[x]]

\* if _, exists := m[k]; exists { m[k]++ } else { m[k] = 1 }
MapInc(m, k) ==
  IF k \in DOMAIN m
    THEN [m EXCEPT ![k] = UintInc(m[k])]
    ELSE [x \in DOMAIN m \cup {k} |-> IF x = k THEN 1 ELSE m[x]]

\* vec.WithLabelValues(l).Inc(): the child is created at 0 when absent
RegInc(m, l) ==
  [x \in DOMAIN m \cup {l} |-> IF x \in DOMAIN m
                                  THEN (IF x = l THEN m[x] + 1 ELSE m[x])
                                  ELSE 1]

RECURSIVE SumOver(_, _)
SumOver(f, S) ==
  IF S = {} THEN 0
  ELSE LET x == CHOOSE y \in S : TRUE IN f[x] + SumOver(f, S \ {x})

MapSum(m) == SumOver(m, DOMAIN m)

ZeroInfo ==
  [ImgdMem |-> 0, Uptime |-> 0, Errored |-> EmptyMap, Requested |-> EmptyMap,
   APIRequested |-> EmptyMap, CacheHits |-> 0, CacheMisses |-> 0,
   CacheSize |-> 0, CacheMem |-> 0]

\* callAt of a call that found room in the channel.
Room == [full |-> FALSE, taken |-> 0, stalled |-> FALSE]

\* cacheRet before cache.size() / cache.memory() were first called.
NoSample == [size |-> -1, mem |-> -1]

\* sampled when a tick has just been received (and before the first tick).
NoGauges == [ImgdMem |-> -1, Uptime |-> -1, CacheSize |-> -1, CacheMem |-> -1]

\* exported[r] before the first ToJSON of r returns.
NoResult == [ImgdMem |-> -1]

ZeroRegistry ==
  [cache |-> EmptyMap, error |-> EmptyMap, request |-> EmptyMap, api |-> EmptyMap]

\* ----------------------------------------------------------- construction
\* The budget of a run: ingestion calls, ToJSON calls, seconds.
Load(c, e, t) == [calls |-> c, exports |-> e, seconds |-> t]

\* The bag of the messages in queue q.
RECURSIVE BagOfSeq(_)
BagOfSeq(q) ==
  IF q = <<>> THEN EmptyBag ELSE SetToBag({Head(q)}) (+) BagOfSeq(Tail(q))

\* A collector whose aggregator is at its select, no call in progress, with
\* s.info = inf, the registry reg, q in the channel and the messages of the
\* bag done handled.
Running(inf, reg, q, done) ==
  /\ info = inf
  /\ StartedAt \in BootTimes
  /\ now = StartedAt
  /\ inputData = q
  /\ tickerC = 0
  /\ sinceTick = 0
  /\ dropped = FALSE
  /\ skipped = FALSE
  /\ registry = reg
  /\ aggPc = "select"
  /\ aggMsg = NoMsg
  /\ prodPc = [p \in Producers |-> "idle"]
  /\ prodMsg = [p \in Producers |-> NoMsg]
  /\ started = done (+) BagOfSeq(q)
  /\ returned = done (+) BagOfSeq(q)
  /\ handled = done
  /\ callAt = [p \in Producers |-> Room]
  /\ cacheRet = NoSample
  /\ sampled = NoGauges
  /\ entered = q
  /\ order = <<>>
  /\ rdPc = [r \in Exporters |-> 0]
  /\ rdBuf = [r \in Exporters |-> ZeroInfo]
  /\ exported = [r \in Exporters |-> NoResult]
  /\ exports = 0
  /\ calledAt = [r \in Exporters |-> 0]
  /\ boundaries = {inf}
  /\ crashed = FALSE
  /\ stopRequested = FALSE

\* MakeStatsCollector: the state when it returns, the goroutine at its select.
Made == Running(ZeroInfo, ZeroRegistry, <<>>, EmptyBag)

\* ------------------------------------------------------------- ingestion
CallsStarted == BagCardinality(started)
CallsReturned == BagCardinality(returned)

\* A faulty channel that accepts one message more than its capacity.
CanSendLoose(q) == Len(q) <= ChanCap

\* Whether a send on a channel holding queue q can proceed.
CanSend(q) == Len(q) < ChanCap

\* Messages the aggregator has received from inputData so far.
Taken == BagCardinality(handled) + (IF aggMsg = NoMsg THEN 0 ELSE 1)

\* The aggregator is inside an external call: the registry increment of
\* handleMessage, or cache.size() / cache.memory() of Collect.
Stalled == aggPc \in {"registry", "CacheSize", "CacheMem"}

\* A producer enters an ingestion method: the message is built and the
\* goroutine reaches the channel send.
BeginSend(p, m) ==
  /\ prodPc[p] = "idle"
  /\ CallsStarted < load.calls
  /\ prodPc' = [prodPc EXCEPT ![p] = "send"]
  /\ prodMsg' = [prodMsg EXCEPT ![p] = m]
  /\ started' = started (+) SetToBag({m})
  /\ callAt' = [callAt EXCEPT ![p] = IF CanSend(inputData) THEN Room
                                       ELSE [full |-> TRUE, taken |-> Taken,
                                             stalled |-> Stalled]]
  /\ UNCHANGED <<returned, objVars, aggVars, clockVars, rdVars, histVars,
                 crashed, load, stopRequested>>

Errored(p, errorType) == BeginSend(p, Message(StatusTypeErrored, errorType))

Requested(p, reqType) == BeginSend(p, Message(StatusTypeRequested, reqType))

APIRequested(p, reqType) == BeginSend(p, Message(StatusTypeAPIRequested, reqType))

HitCache(p) == BeginSend(p, Message(StatusTypeCacheHit, ""))

MissCache(p) == BeginSend(p, Message(StatusTypeCacheMiss, ""))

\* A faulty channel that hands out the newest message first.
EnqueueFront(q, m) == <<m>> \o q

\* The channel's queue after a send of m: behind the messages waiting.
Enqueue(q, m) == Append(q, m)

\* s.inputData <- msg completes and the method returns.
ChanSend(p) ==
  /\ prodPc[p] = "send"
  /\ CanSend(inputData)
  /\ inputData' = Enqueue(inputData, prodMsg[p])
  /\ entered' = Append(entered, prodMsg[p])
  /\ prodPc' = [prodPc EXCEPT ![p] = "idle"]
  /\ returned' = returned (+) SetToBag({prodMsg[p]})
  /\ prodMsg' = [prodMsg EXCEPT ![p] = NoMsg]
  /\ callAt' = [callAt EXCEPT ![p].taken = 0]
  /\ UNCHANGED <<started, info, StartedAt, registry, aggVars, clockVars,
                 rdVars, cacheRet, sampled, boundaries, handled, order,
                 crashed, load, stopRequested>>

\* ------------------------------------------------------- clock and ticker
\* A faulty ticker that queues a second tick behind a pending one.
TickerRoomBatched(c) == c < TickerCap + 1

\* Whether ticker.C, holding c ticks, takes one more: the ticker's send does
\* not block, the tick is dropped when the channel is full.
TickerRoom(c) == c < TickerCap

\* The ticker after one more second: it fires every TickPeriod seconds and
\* drops the tick when ticker.C is full.
TickerStep ==
  /\ sinceTick' = (sinceTick + 1) % TickPeriod
  /\ tickerC' = IF sinceTick' = 0 /\ TickerRoom(tickerC)
                  THEN tickerC + 1 ELSE tickerC
  /\ UNCHANGED skipped

\* The ticker fires in the second that passes and finds ticker.C full.
TickDropped == (sinceTick + 1) % TickPeriod = 0 /\ ~TickerRoom(tickerC)

\* One second passes.
Advance ==
  /\ now - StartedAt < load.seconds
  /\ now' = now + 1
  /\ TickerStep
  /\ dropped' = (dropped \/ TickDropped)
  /\ UNCHANGED <<objVars, aggVars, prodVars, rdVars, histVars, crashed, load,
                 stopRequested>>

\* One second passes after the last second the model counts: the ticker goes
\* on, the clock reading stays (used where ticks must keep arriving).
AdvanceLate ==
  /\ now - StartedAt >= load.seconds
  /\ now' = now
  /\ TickerStep
  /\ UNCHANGED dropped
  /\ UNCHANGED <<objVars, aggVars, prodVars, rdVars, histVars, crashed, load,
                 stopRequested>>

\* ------------------------------------------------------------ aggregator
\* The history of loop boundaries with s.info = inf added; it is kept in the
\* runs that call ToJSON.
Noted(b, inf) == IF load.exports > 0 THEN b \cup {inf} ELSE b

\* A faulty loop that ends after its first iteration.
LoopExit == "exit"

\* Where the goroutine goes after a case of the select: around the for loop.
LoopBack == "select"

\* case <-ticker.C:
SelectTick ==
  /\ aggPc = "select"
  /\ tickerC > 0
  /\ tickerC' = tickerC - 1
  /\ skipped' = dropped
  /\ dropped' = FALSE
  /\ aggPc' = "ImgdMem"
  /\ sampled' = NoGauges
  /\ UNCHANGED <<now, sinceTick, aggMsg, objVars, prodVars, rdVars, cacheRet,
                 boundaries, handled, entered, order, crashed, load,
                 stopRequested>>

\* A faulty receive that takes a second message along with the first.
DequeueTwo(q) == IF Len(q) >= 2 THEN Tail(Tail(q)) ELSE Tail(q)

\* A faulty receive that leaves the message in the channel.
DequeueKeep(q) == q

\* What a receive leaves in the channel.
Dequeue(q) == Tail(q)

\* case msg := <-collector.inputData:
SelectMsg ==
  /\ aggPc = "select"
  /\ inputData # <<>>
  /\ aggMsg' = Head(inputData)
  /\ inputData' = Dequeue(inputData)
  /\ aggPc' = "registry"
  /\ UNCHANGED <<info, StartedAt, registry, clockVars, prodVars, rdVars,
                 histVars, crashed, load, stopRequested>>

\* A faulty handleMessage that reports requests to the api family and API
\* requests to the request family.
RegistryAfterCrossed(reg, msg) ==
  CASE msg.MessageType = StatusTypeCacheHit ->
         [reg EXCEPT !.cache = RegInc(@, "hit")]
    [] msg.MessageType = StatusTypeCacheMiss ->
         [reg EXCEPT !.cache = RegInc(@, "miss")]
    [] msg.MessageType = StatusTypeErrored ->
         [reg EXCEPT !.error = RegInc(@, msg.StatusType)]
    [] msg.MessageType = StatusTypeRequested ->
         [reg EXCEPT !.api = RegInc(@, msg.StatusType)]
    [] msg.MessageType = StatusTypeAPIRequested ->
         [reg EXCEPT !.request = RegInc(@, msg.StatusType)]
    [] OTHER -> reg

\* handleMessage, first statement of the case: the prometheus increment.
RegistryAfter(reg, msg) ==
  CASE msg.MessageType = StatusTypeCacheHit ->
         [reg EXCEPT !.cache = RegInc(@, "hit")]
    [] msg.MessageType = StatusTypeCacheMiss ->
         [reg EXCEPT !.cache = RegInc(@, "miss")]
    [] msg.MessageType = StatusTypeErrored ->
         [reg EXCEPT !.error = RegInc(@, msg.StatusType)]
    [] msg.MessageType = StatusTypeRequested ->
         [reg EXCEPT !.request = RegInc(@, msg.StatusType)]
    [] msg.MessageType = StatusTypeAPIRequested ->
         [reg EXCEPT !.api = RegInc(@, msg.StatusType)]
    [] OTHER -> reg

\* A faulty handleMessage that counts a cache hit as a miss and vice versa.
InfoAfterSwapped(inf, msg) ==
  CASE msg.MessageType = StatusTypeCacheHit ->
         [inf EXCEPT !.CacheHits = UintInc(@)]
    [] msg.MessageType = StatusTypeCacheMiss ->
         [inf EXCEPT !.CacheMisses = UintInc(@)]
    [] msg.MessageType = StatusTypeErrored ->
         [inf EXCEPT !.Errored = MapInc(@, msg.StatusType)]
    [] msg.MessageType = StatusTypeRequested ->
         [inf EXCEPT !.APIRequested = MapInc(@, msg.StatusType)]
    [] msg.MessageType = StatusTypeAPIRequested ->
         [inf EXCEPT !.Requested = MapInc(@, msg.StatusType)]
    [] OTHER -> inf

\* handleMessage, rest of the case: the counter of s.info.
InfoAfter(inf, msg) ==
  CASE msg.MessageType = StatusTypeCacheHit ->
         [inf EXCEPT !.CacheHits = UintInc(@)]
    [] msg.MessageType = StatusTypeCacheMiss ->
         [inf EXCEPT !.CacheMisses = UintInc(@)]
    [] msg.MessageType = StatusTypeErrored ->
         [inf EXCEPT !.Errored = MapInc(@, msg.StatusType)]
    [] msg.MessageType = StatusTypeRequested ->
         [inf EXCEPT !.Requested = MapInc(@, msg.StatusType)]
    [] msg.MessageType = StatusTypeAPIRequested ->
         [inf EXCEPT !.APIRequested = MapInc(@, msg.StatusType)]
    [] OTHER -> inf

HandleRegistry ==
  /\ aggPc = "registry"
  /\ registry' = RegistryAfter(registry, aggMsg)
  /\ aggPc' = "count"
  /\ UNCHANGED <<info, StartedAt, inputData, aggMsg, clockVars, prodVars,
                 rdVars, histVars, crashed, load, stopRequested>>

HandleCount ==
  /\ aggPc = "count"
  /\ info' = InfoAfter(info, aggMsg)
  /\ aggMsg' = NoMsg
  /\ aggPc' = LoopBack
  /\ boundaries' = Noted(boundaries, info')
  /\ handled' = handled (+) SetToBag({aggMsg})
  /\ order' = Append(order, aggMsg)
  /\ UNCHANGED <<StartedAt, inputData, registry, cacheRet, sampled, entered,
                 clockVars,
                 prodVars, rdVars, crashed, load, stopRequested>>

\* Collect, statement by statement.
CollectImgdMem ==
  /\ aggPc = "ImgdMem"
  /\ \E a \in AllocValues :
       /\ info' = [info EXCEPT !.ImgdMem = a]
       /\ sampled' = [sampled EXCEPT !.ImgdMem = a]
  /\ aggPc' = "Uptime"
  /\ UNCHANGED <<StartedAt, inputData, registry, aggMsg, clockVars, prodVars,
                 rdVars, cacheRet, boundaries, handled, entered, order,
                 crashed, load, stopRequested>>

\* A faulty uptime that forgets to subtract StartedAt.
UptimeNoStart(t) == t

\* time.Now().Unix() - s.StartedAt, at time t
UptimeAt(t) == t - StartedAt

CollectUptime ==
  /\ aggPc = "Uptime"
  /\ info' = [info EXCEPT !.Uptime = UptimeAt(now)]
  /\ sampled' = [sampled EXCEPT !.Uptime = now - StartedAt]
  /\ aggPc' = "CacheSize"
  /\ UNCHANGED <<StartedAt, inputData, registry, aggMsg, clockVars, prodVars,
                 rdVars, cacheRet, boundaries, handled, entered, order,
                 crashed, load, stopRequested>>

\* A faulty Collect that starts the hit counter afresh with each sample.
WithCacheSizeAndReset(inf, n) == [inf EXCEPT !.CacheSize = n, !.CacheHits = 0]

\* A faulty Collect that stores cache.size() in CacheMem.
WithCacheSizeInMem(inf, n) == [inf EXCEPT !.CacheMem = n]

\* s.info.CacheSize = (the n that cache.size() returned)
WithCacheSize(inf, n) == [inf EXCEPT !.CacheSize = n]

CollectCacheSize ==
  /\ aggPc = "CacheSize"
  /\ \E n \in CacheSizes :
       /\ info' = WithCacheSize(info, n)
       /\ cacheRet' = [cacheRet EXCEPT !.size = n]
       /\ sampled' = [sampled EXCEPT !.CacheSize = n]
  /\ aggPc' = "CacheMem"
  /\ UNCHANGED <<StartedAt, inputData, registry, aggMsg, boundaries,
                 handled, entered, order, clockVars, prodVars, rdVars, crashed, load,
                 stopRequested>>

CollectCacheMem ==
  /\ aggPc = "CacheMem"
  /\ \E n \in CacheMems :
       /\ info' = [info EXCEPT !.CacheMem = n]
       /\ cacheRet' = [cacheRet EXCEPT !.mem = n]
       /\ sampled' = [sampled EXCEPT !.CacheMem = n]
  /\ aggPc' = LoopBack
  /\ boundaries' = Noted(boundaries, info')
  /\ UNCHANGED <<StartedAt, inputData, registry, aggMsg, handled, entered,
                 order, clockVars,
                 prodVars, rdVars, crashed, load, stopRequested>>

\* ----------------------------------------------------------------- ToJSON
\* json.Marshal(s.info) on the caller's goroutine, with no synchronisation:
\* the struct is copied (the scalar fields, and the three map headers), then
\* the encoder walks the live maps in field order.
ReadOrder ==
  <<"ImgdMem", "Uptime", "CacheHits", "CacheMisses", "CacheSize", "CacheMem",
    "Errored", "Requested", "APIRequested">>

MapFields == {"Errored", "Requested", "APIRequested"}

\* The map of s.info that handling msg writes ("" for the cache messages).
MapWritten(msg) ==
  CASE msg.MessageType = StatusTypeErrored -> "Errored"
    [] msg.MessageType = StatusTypeRequested -> "Requested"
    [] msg.MessageType = StatusTypeAPIRequested -> "APIRequested"
    [] OTHER -> ""

ToJSON(r) ==
  /\ rdPc[r] = 0
  /\ exports < load.exports
  /\ exports' = exports + 1
  /\ rdPc' = [rdPc EXCEPT ![r] = 1]
  /\ rdBuf' = [rdBuf EXCEPT ![r] = ZeroInfo]
  /\ calledAt' = [calledAt EXCEPT ![r] = now]
  /\ UNCHANGED <<exported, objVars, aggVars, clockVars, prodVars, histVars,
                 crashed, load, stopRequested>>

\* One field of s.info is read; after the last one ToJSON returns.
ReadField(r) ==
  /\ rdPc[r] > 0
  /\ LET f == ReadOrder[rdPc[r]]
         buf == [rdBuf[r] EXCEPT ![f] = info[f]]
     IN /\ rdBuf' = [rdBuf EXCEPT ![r] = buf]
        /\ IF rdPc[r] = Len(ReadOrder)
             THEN /\ rdPc' = [rdPc EXCEPT ![r] = 0]
                  /\ exported' = [exported EXCEPT ![r] = buf]
             ELSE /\ rdPc' = [rdPc EXCEPT ![r] = @ + 1]
                  /\ UNCHANGED exported
  /\ UNCHANGED <<exports, calledAt, objVars, aggVars, clockVars, prodVars,
                 histVars, crashed, load, stopRequested>>

\* The encoder iterates a map while handleMessage writes it: the Go runtime
\* may detect it and end the process ("concurrent map iteration and map
\* write").
FatalMapRace(r) ==
  /\ rdPc[r] > 0
  /\ ReadOrder[rdPc[r]] \in MapFields
  /\ aggPc = "count"
  /\ MapWritten(aggMsg) = ReadOrder[rdPc[r]]
  /\ crashed' = TRUE
  /\ UNCHANGED <<objVars, aggVars, clockVars, prodVars, rdVars, histVars, load,
                 stopRequested>>

\* ------------------------------------------------------------ the program
Aggregator ==
  \/ SelectTick
  \/ SelectMsg
  \/ HandleRegistry
  \/ HandleCount
  \/ CollectImgdMem
  \/ CollectUptime
  \/ CollectCacheSize
  \/ CollectCacheMem

Producer(p) ==
  \/ \E s \in Strings : Errored(p, s)
  \/ \E s \in Strings : Requested(p, s)
  \/ \E s \in Strings : APIRequested(p, s)
  \/ HitCache(p)
  \/ MissCache(p)
  \/ ChanSend(p)

Exporter(r) ==
  \/ ToJSON(r)
  \/ ReadField(r)
  \/ FatalMapRace(r)

\* The program with its producers, the clock and callers of ToJSON.
Next ==
  /\ ~crashed
  /\ \/ \E p \in Producers : Producer(p)
     \/ Aggregator
     \/ Advance
     \/ \E r \in Exporters : Exporter(r)

Init == Made /\ load = Load(FewCalls, MaxExports, MaxElapsed)

Spec == Init /\ [][Next]_vars

\* The program where nothing calls ToJSON.  ToJSON writes nothing the
\* aggregator or the producers read, so what holds of their state here holds
\* of it in Spec as well.
IngestNext ==
  /\ ~crashed
  /\ \/ \E p \in Producers : Producer(p)
     \/ Aggregator
     \/ Advance

IngestInit == Made /\ load = Load(MaxCalls, 0, MaxElapsed)

IngestSpec == IngestInit /\ [][IngestNext]_vars

\* The same, over two ticks.
TicksInit == Made /\ load = Load(FewCalls, 0, LongElapsed)

TicksSpec == TicksInit /\ [][IngestNext]_vars

\* The same program, started where Backlog HitCache calls have returned
\* before the aggregator goroutine first ran: two more calls fill the channel.
BacklogQueue == [i \in 1..Backlog |-> Message(StatusTypeCacheHit, "")]

PressureInit ==
  /\ Running(ZeroInfo, ZeroRegistry, BacklogQueue, EmptyBag)
  /\ load = Load(Backlog + MaxCalls, 0, MaxElapsed)

PressureSpec == PressureInit /\ [][IngestNext]_vars

\* The same program, started where every counter is one short of the largest
\* uint: each message has been handled UintMax - 1 times.
LongRunBag == [m \in Messages |-> UintMax - 1]

LongRunInfo ==
  [ZeroInfo EXCEPT !.CacheHits = UintMax - 1,
                   !.CacheMisses = UintMax - 1,
                   !.Errored = [s \in Strings |-> UintMax - 1],
                   !.Requested = [s \in Strings |-> UintMax - 1],
                   !.APIRequested = [s \in Strings |-> UintMax - 1]]

LongRunRegistry ==
  [cache |-> [l \in {"hit", "miss"} |-> UintMax - 1],
   error |-> [s \in Strings |-> UintMax - 1],
   request |-> [s \in Strings |-> UintMax - 1],
   api |-> [s \in Strings |-> UintMax - 1]]

WrapInit ==
  /\ Running(LongRunInfo, LongRunRegistry, <<>>, LongRunBag)
  /\ load = Load(BagCardinality(LongRunBag) + MaxCalls, 0, MaxElapsed)

WrapSpec == WrapInit /\ [][IngestNext]_vars

\* The same program with the ticker running for ever, under the scheduling
\* Go gives: a goroutine that can run does run, a blocked send completes once
\* there is room, time passes, and the select picks at random among the ready
\* cases, so a case that is ready again and again is taken.
LiveNext ==
  /\ ~crashed
  /\ \/ \E p \in Producers : Producer(p)
     \/ Aggregator
     \/ Advance
     \/ AdvanceLate

Fairness ==
  /\ WF_vars(HandleRegistry)
  /\ WF_vars(HandleCount)
  /\ WF_vars(CollectImgdMem)
  /\ WF_vars(CollectUptime)
  /\ WF_vars(CollectCacheSize)
  /\ WF_vars(CollectCacheMem)
  /\ SF_vars(SelectTick)
  /\ SF_vars(SelectMsg)
  /\ \A p \in Producers : WF_vars(ChanSend(p))
  /\ WF_vars(Advance)
  /\ WF_vars(AdvanceLate)

LiveInit == Made /\ load = Load(FewCalls, 0, MaxElapsed)

LiveSpec == LiveInit /\ [][LiveNext]_vars /\ Fairness

\* The program of LiveSpec started where ChanCap HitCache calls have returned
\* before the aggregator goroutine first ran: the channel is full, the next
\* call blocks, and the aggregator can be held up in an external call for
\* any finite time.
FullQueue == [i \in 1..ChanCap |-> Message(StatusTypeCacheHit, "")]

StallInit ==
  /\ Running(ZeroInfo, ZeroRegistry, FullQueue, EmptyBag)
  /\ load = Load(ChanCap + FewCalls, 0, ShortElapsed)

StallSpec == StallInit /\ [][LiveNext]_vars /\ Fairness

\* The owner of the collector asks the aggregator to stop.  MakeStatsCollector
\* takes no channel or context to carry the request and the select has no
\* case for it: nothing the goroutine reads changes.
RequestStop ==
  /\ ~stopRequested
  /\ stopRequested' = TRUE
  /\ UNCHANGED <<objVars, aggVars, clockVars, prodVars, rdVars, histVars,
                 crashed, load>>

\* The program of LiveSpec with an owner that may ask for the stop.
StopNext ==
  /\ ~crashed
  /\ \/ \E p \in Producers : Producer(p)
     \/ Aggregator
     \/ Advance
     \/ AdvanceLate
     \/ RequestStop

StopSpec == LiveInit /\ [][StopNext]_vars /\ Fairness

\* ------------------------------------------------------------ properties
\* m[k] as Go reads it: the zero value when the bucket is absent.
Bucket(m, k) == IF k \in DOMAIN m THEN m[k] ELSE 0

\* The counter of inf that the calls sending message m are counted in.
CounterFor(inf, m) ==
  CASE m.MessageType = StatusTypeCacheHit -> inf.CacheHits
    [] m.MessageType = StatusTypeCacheMiss -> inf.CacheMisses
    [] m.MessageType = StatusTypeErrored -> Bucket(inf.Errored, m.StatusType)
    [] m.MessageType = StatusTypeRequested -> Bucket(inf.Requested, m.StatusType)
    [] m.MessageType = StatusTypeAPIRequested ->
         Bucket(inf.APIRequested, m.StatusType)

Gauges(inf) == <<inf.ImgdMem, inf.Uptime, inf.CacheSize, inf.CacheMem>>

Buckets(inf) == <<DOMAIN inf.Errored, DOMAIN inf.Requested, DOMAIN inf.APIRequested>>

\* The calls of bag b that sent a message of type t.
CallsOfType(b, t) ==
  BagCardinality([m \in {x \in BagToSet(b) : x.MessageType = t} |-> b[m]])

InFlight == IF aggMsg = NoMsg THEN EmptyBag ELSE SetToBag({aggMsg})

\* Every call has returned and the aggregator has taken and handled every
\* message.
Drained ==
  /\ \A p \in Producers : prodPc[p] = "idle"
  /\ inputData = <<>>
  /\ aggMsg = NoMsg

CollectPcs == {"ImgdMem", "Uptime", "CacheSize", "CacheMem"}

\* C1: no message is handled that was not enqueued, nor more often than it
\* was enqueued; once every call has returned and the queue is drained, the
\* messages handled are exactly the messages of the calls made, and the sum
\* of Requested over all categories is the number of Requested calls.
C1_NoLostOrDuplicated ==
  /\ handled \sqsubseteq returned
  /\ Drained =>
       /\ handled = started
       /\ MapSum(info.Requested) = CallsOfType(started, StatusTypeRequested)

\* Two Requested calls with different categories have been made and drained.
C1_Witness ==
  /\ Drained
  /\ CallsOfType(started, StatusTypeRequested) = 2
  /\ DOMAIN info.Requested = {"", "skin"}

\* C2: once every call has returned and the queue is drained, each counter
\* (CacheHits, CacheMisses, every bucket of Errored, Requested, APIRequested)
\* equals the number of calls made with its event type and category.
C2_CounterCompleteness ==
  Drained => \A m \in Messages : CounterFor(info, m) = CopiesIn(m, started)

\* Two Errored("skin") calls have been made and drained.
C2_Witness ==
  /\ Drained
  /\ CopiesIn(Message(StatusTypeErrored, "skin"), started) = 2
  /\ info.Errored["skin"] = 2

\* C3: every result of ToJSON equals s.info as it stood at one boundary
\* between two steps of the aggregator loop.
C3_SnapshotConsistency ==
  \A r \in Exporters : exported[r] # NoResult => exported[r] \in boundaries

\* C4: inputData never holds more than ChanCap messages; a call returns only
\* by a step that finds room and leaves its message at the end of the queue,
\* and a call made while the queue was full returns only after the aggregator
\* has received a further message; every message of a returned call is in the
\* queue, being handled, or handled.
C4_BackPressure ==
  /\ [](Len(inputData) <= ChanCap)
  /\ [](returned = handled (+) InFlight (+) BagOfSeq(inputData))
  /\ [][\A p \in Producers :
          (prodPc[p] = "send" /\ prodPc'[p] = "idle") =>
            /\ Len(inputData) < ChanCap
            /\ inputData' = Append(inputData, prodMsg[p])
            /\ callAt[p].full => Taken > callAt[p].taken]_vars

\* A call made while the queue held ChanCap messages has returned.
C4_Witness ==
  \E p \in Producers : callAt[p].full /\ prodPc[p] = "idle"

\* C5: no goroutine but the aggregator is inside an access to s.info while
\* the aggregator is in the middle of handleMessage or Collect.
C5_SingleWriter ==
  \A r \in Exporters : rdPc[r] > 0 => aggPc = "select"

\* C6: the step that finishes handling a message adds exactly one to the
\* counter of that message and leaves every other counter, every gauge and
\* every other bucket as it was.
C6_IndependentIncrements ==
  [][(aggPc = "count" /\ aggPc' # "count") =>
       /\ CounterFor(info', aggMsg) = CounterFor(info, aggMsg) + 1
       /\ \A m \in Messages \ {aggMsg} : CounterFor(info', m) = CounterFor(info, m)
       /\ Gauges(info') = Gauges(info)
       /\ \A i \in 1..3 :
            Buckets(info')[i] \in {Buckets(info)[i],
                                   Buckets(info)[i] \cup {aggMsg.StatusType}}
       /\ Cardinality(UNION {Buckets(info')[i] \ Buckets(info)[i] : i \in 1..3}) <= 1]_vars

\* Requested("skin") and HitCache have been handled: APIRequested has no
\* bucket "skin" and CacheMisses is 0.
C6_Witness ==
  /\ Bucket(info.Requested, "skin") = 1
  /\ info.CacheHits = 1
  /\ info.APIRequested = EmptyMap
  /\ info.CacheMisses = 0

\* C7 (as claimed): with no ingestion activity, the Uptime of a snapshot is
\* within one second of the seconds T between construction and the ToJSON
\* call.
C7_UptimeAccurate ==
  \A r \in Exporters :
    (exported[r] # NoResult /\ started = EmptyBag) =>
      /\ exported[r].Uptime - (calledAt[r] - StartedAt) <= 1
      /\ (calledAt[r] - StartedAt) - exported[r].Uptime <= 1

\* C7 (amended): with no ingestion activity, the Uptime of a snapshot is the
\* value a tick stored (0 before the first tick): 0, or at least TickPeriod,
\* and never more than the seconds elapsed since construction.
C7_UptimeOfLastTick ==
  \A r \in Exporters :
    (exported[r] # NoResult /\ started = EmptyBag) =>
      /\ exported[r].Uptime \in {b.Uptime : b \in boundaries} \cup {info.Uptime}
      /\ exported[r].Uptime = 0 \/ exported[r].Uptime >= TickPeriod
      /\ exported[r].Uptime <= now - StartedAt

\* A ToJSON called 3 seconds after construction returned Uptime 0, and the
\* first tick has been processed since.
C7_Witness ==
  \E r \in Exporters :
    /\ exported[r] # NoResult
    /\ started = EmptyBag
    /\ calledAt[r] - StartedAt = 3
    /\ exported[r].Uptime = 0
    /\ info.Uptime = TickPeriod

\* C8: while no tick has been taken the four gauges are zero; outside Collect
\* and after a tick, CacheSize and CacheMem are what cache.size() and
\* cache.memory() returned during the last tick.
C8_GaugeSampling ==
  /\ (cacheRet = NoSample /\ aggPc \notin CollectPcs) => Gauges(info) = <<0, 0, 0, 0>>
  /\ (cacheRet # NoSample /\ aggPc \notin CollectPcs) =>
       /\ info.CacheSize = cacheRet.size
       /\ info.CacheMem = cacheRet.mem

\* The second tick has been processed while a message was handled in between.
C8_Witness ==
  /\ aggPc = "select"
  /\ info.Uptime >= 2 * TickPeriod
  /\ info.CacheSize = 2
  /\ info.CacheSize = cacheRet.size
  /\ handled # EmptyBag

\* C9 (as claimed): no step lowers a counter or removes a bucket.
C9_Monotone ==
  [][/\ \A m \in Messages : CounterFor(info', m) >= CounterFor(info, m)
     /\ \A i \in 1..3 : Buckets(info)[i] \subseteq Buckets(info')[i]]_vars

\* C9 (amended): no step removes a bucket, and no step lowers a counter
\* except the increment of a counter that holds the largest uint, which
\* leaves 0.
C9_MonotoneUntilWrap ==
  [][/\ \A m \in Messages :
          \/ CounterFor(info', m) >= CounterFor(info, m)
          \/ /\ CounterFor(info, m) = UintMax
             /\ CounterFor(info', m) = 0
             /\ aggPc = "count" /\ aggMsg = m
     /\ \A i \in 1..3 : Buckets(info)[i] \subseteq Buckets(info')[i]]_vars

\* CacheHits has gone from the largest uint to 0.
C9_Witness ==
  /\ info.CacheHits = 0
  /\ CopiesIn(Message(StatusTypeCacheHit, ""), handled) = UintMax + 1

C11_TicksSkipped ==
  /\ [](tickerC <= 1)
  /\ [][(aggPc = "select" /\ aggPc' = "ImgdMem") => tickerC' = 0]_vars

\* Two tick periods went by before the aggregator received a tick (the second
\* tick was dropped); it has run Collect once, at second 10, and no tick is
\* pending.
C11_Witness ==
  /\ skipped
  /\ aggPc = "select"
  /\ info.Uptime = 2 * TickPeriod
  /\ tickerC = 0

\* C12: once the stop has been asked for, the aggregator goroutine eventually
\* leaves its loop.
C12_Cancellation == stopRequested ~> (aggPc = "exit")

\* The registry's count for the family and label of message m.
RegistryCount(reg, m) ==
  CASE m.MessageType = StatusTypeCacheHit -> Bucket(reg.cache, "hit")
    [] m.MessageType = StatusTypeCacheMiss -> Bucket(reg.cache, "miss")
    [] m.MessageType = StatusTypeErrored -> Bucket(reg.error, m.StatusType)
    [] m.MessageType = StatusTypeRequested -> Bucket(reg.request, m.StatusType)
    [] m.MessageType = StatusTypeAPIRequested -> Bucket(reg.api, m.StatusType)

\* C13: handling a message adds exactly one to the registry, in the family of
\* its type and under its label; at every boundary between loop iterations the
\* registry's count of each family and label equals the internal counter, the
\* cache family having no label but "hit" and "miss"; no other step, and so
\* no step of a tick, changes the registry.
C13_RegistryForwarding ==
  /\ [](aggPc = "select" =>
          /\ \A m \in Messages : RegistryCount(registry, m) = CounterFor(info, m)
          /\ DOMAIN registry.cache \subseteq {"hit", "miss"}
          /\ DOMAIN registry.error = DOMAIN info.Errored
          /\ DOMAIN registry.request = DOMAIN info.Requested
          /\ DOMAIN registry.api = DOMAIN info.APIRequested)
  /\ [][(aggPc = "registry" /\ aggPc' = "count") =>
          /\ RegistryCount(registry', aggMsg)
               = RegistryCount(registry, aggMsg) + 1
          /\ \A m \in Messages \ {aggMsg} :
                RegistryCount(registry', m) = RegistryCount(registry, m)]_vars
  /\ [][~(aggPc = "registry" /\ aggPc' = "count") => registry' = registry]_vars

\* Requested("skin") and APIRequested("skin") have been handled and a tick
\* processed: one increment in each family.
C13_Witness ==
  /\ aggPc = "select"
  /\ cacheRet # NoSample
  /\ registry.request = [s \in {"skin"} |-> 1]
  /\ registry.api = [s \in {"skin"} |-> 1]
  /\ info.Requested = registry.request

\* The map of inf that messages of type t are counted in.
MapFor(inf, t) ==
  CASE t = StatusTypeErrored -> inf.Errored
    [] t = StatusTypeRequested -> inf.Requested
    [] t = StatusTypeAPIRequested -> inf.APIRequested

MapTypes == {StatusTypeErrored, StatusTypeRequested, StatusTypeAPIRequested}

\* C15: a call with any string, the empty one included, enqueues a message
\* carrying that string; every message enqueued or being handled is one a
\* case of handleMessage matches; and the step that finishes handling a
\* message changes s.info: for Errored / Requested / APIRequested it creates
\* the bucket keyed by the string with value 1 if absent and adds 1 to it
\* otherwise, with the other buckets of the map as they were.
C15_NoValidation ==
  /\ [](/\ \A i \in 1..Len(inputData) : inputData[i] \in Messages
        /\ aggMsg \in Messages \cup {NoMsg}
        /\ \A p \in Producers : prodPc[p] = "send" => prodMsg[p] \in Messages)
  /\ [][(aggPc = "count" /\ aggPc' # "count") =>
          /\ info' # info
          /\ aggMsg.MessageType \in MapTypes =>
               LET old == MapFor(info, aggMsg.MessageType)
                   new == MapFor(info', aggMsg.MessageType)
                   k == aggMsg.StatusType
               IN /\ DOMAIN new = DOMAIN old \cup {k}
                  /\ new[k] = IF k \in DOMAIN old THEN old[k] + 1 ELSE 1
                  /\ \A x \in DOMAIN old \ {k} : new[x] = old[x]]_vars
  /\ [][\A p \in Producers :
          (prodPc[p] = "send" /\ prodPc'[p] = "idle") =>
            /\ Len(inputData') = Len(inputData) + 1
            /\ inputData'[Len(inputData')] = prodMsg[p]]_vars

\* Errored("") has been called twice and both calls are counted in the bucket
\* keyed by the empty string.
C15_Witness ==
  /\ Drained
  /\ CopiesIn(Message(StatusTypeErrored, ""), started) = 2
  /\ DOMAIN info.Errored = {""}
  /\ info.Errored[""] = 2

HandlePcs == {"registry", "count"}

\* C16: the aggregator is inside handleMessage exactly while it holds a
\* message, and holds none inside Collect; the step that leaves the select
\* takes exactly one item, the first message of the queue or one tick, and
\* until the aggregator is back at the select it takes nothing more from the
\* queue or from the ticker.
C16_Sequential ==
  /\ [](/\ aggPc \in HandlePcs <=> aggMsg # NoMsg
        /\ aggPc \in HandlePcs \cup CollectPcs \cup {"select"})
  /\ [][(aggPc = "select" /\ aggPc' # "select") =>
          \/ /\ aggPc' = "registry"
             /\ inputData # <<>>
             /\ aggMsg' = Head(inputData)
             /\ inputData' = Tail(inputData)
             /\ tickerC' = tickerC
          \/ /\ aggPc' = "ImgdMem"
             /\ tickerC' = tickerC - 1
             /\ inputData' = inputData
             /\ aggMsg' = NoMsg]_vars
  /\ [][aggPc # "select" =>
          /\ Len(inputData') >= Len(inputData)
          /\ tickerC' >= tickerC
          /\ aggMsg' \in {aggMsg, NoMsg}]_vars

\* The aggregator is in the middle of handling a message while a tick and a
\* further message wait.
C16_Witness ==
  /\ aggPc = "count"
  /\ tickerC = 1
  /\ inputData # <<>>

Counters(inf) ==
  <<inf.CacheHits, inf.CacheMisses, inf.Errored, inf.Requested, inf.APIRequested>>

\* C17: the steps of a tick (its receipt and the statements of Collect) leave
\* the five counters, StartedAt, the queue and the registry as they were; and
\* at every boundary of the loop after a tick, each of the four gauges holds
\* what the Collect of the tick last received obtained for it: none is left
\* from an earlier tick.
C17_TickFrame ==
  /\ [][((aggPc = "select" /\ aggPc' = "ImgdMem")
           \/ (aggPc \in CollectPcs /\ aggPc' # aggPc)) =>
          /\ Counters(info') = Counters(info)
          /\ StartedAt' = StartedAt
          /\ inputData' = inputData
          /\ registry' = registry]_vars
  /\ []((aggPc \notin CollectPcs /\ sampled # NoGauges) =>
          /\ \A g \in DOMAIN sampled : sampled[g] >= 0 /\ info[g] = sampled[g])

\* Two ticks have been received and processed, a message was handled, and
\* the gauges are those of the second tick.
C17_Witness ==
  /\ aggPc = "select"
  /\ tickerC = 0
  /\ ~skipped
  /\ now - StartedAt = 2 * TickPeriod
  /\ sampled.Uptime = 2 * TickPeriod
  /\ info.CacheHits = 1

\* C18: while the aggregator is inside an external call nothing leaves the
\* queue; the calls returned never exceed the messages the aggregator has
\* received by more than ChanCap, and a call facing a full queue does not
\* return in that step; eventually every call started has returned and has
\* been counted, and it stays so.
C18_StallBackPressure ==
  /\ [][Stalled => Len(inputData') >= Len(inputData)]_vars
  /\ [](CallsReturned <= Taken + ChanCap)
  /\ [][\A p \in Producers :
          (prodPc[p] = "send" /\ Len(inputData) = ChanCap)
            => prodPc'[p] = "send"]_vars
  /\ <>[](/\ \A p \in Producers : prodPc[p] = "idle"
          /\ handled = started
          /\ \A m \in Messages : CounterFor(info, m) = CopiesIn(m, started))

\* A call found the queue full while the aggregator was inside an external
\* call, has returned since, and every call has been counted.
C18_Witness ==
  \E p \in Producers :
    /\ callAt[p].full
    /\ callAt[p].stalled
    /\ Drained
    /\ handled = started
    /\ BagCardinality(handled) = ChanCap + 1

\* The sum of all counters of inf.
CounterSum(inf) ==
  inf.CacheHits + inf.CacheMisses + MapSum(inf.Errored) + MapSum(inf.Requested)
    + MapSum(inf.APIRequested)

\* C19: the number of calls returned is the sum of all counters plus the
\* messages in the queue plus the message being handled, if any; the sum of
\* the counters never exceeds the calls started and is behind the calls
\* returned by at most ChanCap + 1.
C19_BoundedLag ==
  /\ CallsReturned = CounterSum(info) + Len(inputData)
                       + (IF aggMsg = NoMsg THEN 0 ELSE 1)
  /\ CounterSum(info) <= CallsStarted
  /\ CallsReturned - CounterSum(info) <= ChanCap + 1

\* The counters are 6 behind the calls returned: 5 messages queued and one
\* being handled.
C19_Witness ==
  /\ CallsReturned - CounterSum(info) = ChanCap + 1
  /\ Len(inputData) = ChanCap
  /\ aggMsg # NoMsg

\* How often message m occurs in sequence q.
Occurrences(q, m) == Cardinality({i \in 1..Len(q) : q[i] = m})

\* C20: the messages handled, the message being handled and the messages
\* waiting are, in this order, the messages in the order they entered the
\* queue; a returning call puts its message behind every message of a call
\* that returned before; and at every boundary of the loop the counters count
\* exactly the messages handled, a first part of that order: no message is
\* counted while one that entered before it is not.
C20_FIFO ==
  /\ [](entered = order \o (IF aggMsg = NoMsg THEN <<>> ELSE <<aggMsg>>)
                         \o inputData)
  /\ [](aggPc = "select" =>
          \A m \in Messages : CounterFor(info, m) = Occurrences(order, m))
  /\ [][\A p \in Producers :
          (prodPc[p] = "send" /\ prodPc'[p] = "idle") =>
            entered' = Append(entered, prodMsg[p])]_vars

\* Requested("skin") entered the queue before Errored("skin") and has been
\* counted while Errored("skin") waits.
C20_Witness ==
  /\ aggPc = "select"
  /\ entered = <<Message(StatusTypeRequested, "skin"),
                 Message(StatusTypeErrored, "skin")>>
  /\ order = <<Message(StatusTypeRequested, "skin")>>
  /\ info.Requested = [s \in {"skin"} |-> 1]
  /\ info.Errored = EmptyMap

====
